---- MODULE Spec2Model ----
\* HubSpot integration gateway of hubspot-ai-wrapper: the sliding-window rate
\* limiter and the retrying HTTP gateway of HubSpotService
\* (backend/app/services/hubspot_service.py) and the cursor pagination loops of
\* the list endpoints (backend/app/api/v1/endpoints/activities.py, contacts.py);
\* the tasks cache (backend/app/services/supabase_service.py) with the handlers
\* list_activities, get_activity and delete_activity; the batch association
\* lookup; the unified contact search (search_contacts).
\*
\* Optional values (Python None or a value) are sequences of length at most
\* one: <<>> is None, <<v>> is the value v.
EXTENDS Integers, Sequences, FiniteSets, TLC

\* ---------------------------------------------------------------- constants
RATE_LIMIT_WINDOW_SEC == 10
RATE_LIMIT_MAX_REQUESTS == 95
max_retries == 3
retry_status_codes == {429, 500, 502, 503}
DequeMaxLen == RATE_LIMIT_MAX_REQUESTS + 10

\* ------------------------------------------------------------------- bounds
\* _request calls one caller makes under Spec
MaxCalls == 1
\* largest explicit retries argument of _request
MaxRetriesArg == 0
\* largest delay, in seconds, a Retry-After header denotes
MaxRetryAfter == 2
\* the clock may be advanced by Tick while it is below MaxTime
MaxTime == 1
\* _request calls one caller makes under the limiter specifications: enough
\* to fill the window once and go on
MaxBurst == RATE_LIMIT_MAX_REQUESTS + 2

\* cursors the remote hands out (opaque, non-empty strings in the code)
MaxCursors == 2
\* records on one page (the code asks for limit=100)
MaxPageSize == 2

\* activities.py: the age below which the cache of an owner is fresh, in seconds
CACHE_FRESH_SECONDS == 300
\* the task ids are 1..MaxTasks
MaxTasks == 2
\* the clock advances at most MaxTicks times, by ClockStep seconds each
MaxTicks == 4
ClockStep == 100
\* the requests the cache handlers receive
MaxRequests == 2
\* hubspot_service.py: the ids sent in one batch read, ids[:100]
BATCH_READ_LIMIT == 100
\* a batch association lookup is given at most MaxIds ids
MaxIds == 150
\* the contact ids are 1..MaxContacts; a remote list holds at most MaxHits
MaxContacts == 2
MaxHits == 2
MaxPuts == 3

\* two callers (request handlers, or threads) and two HubSpotService instances
Callers == {1, 2}
Instances == {1, 2}
\* settings.hubspot_access_token / hubspot_api_key: empty or set
Tokens == {"", "pat-token"}

\* HTTP statuses the remote answers with; 304 stands for the statuses below
\* 400 that are not 2xx, 504 for the 5xx statuses that are not retried
Statuses == {200, 204, 304, 400, 404, 429, 500, 502, 503, 504}
\* a Retry-After header: its text is all decimal digits (isdigit) or not (an
\* HTTP-date, a fraction), and it denotes a delay of `seconds`
HeaderValues == [isdigit : BOOLEAN, seconds : 0..MaxRetryAfter]
RetryAfterHeaders == {<<>>} \cup {<<h>> : h \in HeaderValues}
\* what requests.request does: raises RequestException, or returns a response
\* (one that is ok with or without a body, one that is not ok with or without
\* a Retry-After header)
Outcomes ==
    {[kind |-> "exc", status_code |-> 0, retry_after |-> <<>>, content |-> FALSE]}
    \cup [kind : {"resp"}, status_code : {s \in Statuses : s < 400},
          retry_after : {<<>>}, content : BOOLEAN]
    \cup [kind : {"resp"}, status_code : {s \in Statuses : s >= 400},
          retry_after : RetryAfterHeaders, content : {TRUE}]
RetriesArgs == {<<>>} \cup {<<n>> : n \in 0..MaxRetriesArg}

VARIABLES
    now,                 \* time.monotonic(), in seconds
    token,               \* token[i]: HubSpotService._token of instance i
    request_timestamps,  \* request_timestamps[i]: the deque of instance i
    inst,                \* inst[c]: the instance caller c holds
    pc,                  \* pc[c]: where caller c is in _request
    retries,             \* locals of _request, per caller
    attempt,
    last_exc,
    result,              \* what _request returned or raised
    calls,               \* calls[c]: _request calls caller c has begun
    recorded,            \* history: recorded[i], every timestamp appended to i
    hist                 \* history of the current call, per caller

gwVars == <<now, token, request_timestamps, inst, pc, retries, attempt,
            last_exc, result, calls, recorded, hist>>

\* the pagination loop of a list endpoint
VARIABLES
    remote,      \* what the remote answers a list call, by the cursor it is given
    fetch_pc,    \* where the handler is: "idle", "loop", "fetched", "failed"
    after,       \* the cursor variable of the loop
    all_tasks,   \* the accumulator of the loop
    listCalls,   \* history: the cursors passed to get_tasks, in order
    callParity   \* history: the number of get_tasks calls, modulo 2

pgVars == <<remote, fetch_pc, after, all_tasks, listCalls, callParity>>

\* the tasks cache and the handlers that read and write it
VARIABLES
    clock,                \* datetime.now(timezone.utc), in seconds
    hubspot_tasks_cache,  \* the rows of the table hubspot_tasks_cache
    remote_tasks,         \* the tasks of the HubSpot portal, by id
    req,                  \* req[r]: the locals of the handler of request r
    last_upsert,          \* history: the payload last upserted for a key
    last_refresh,         \* history: when an owner's last refresh completed
    served                \* history: the requests received so far

ccVars == <<clock, hubspot_tasks_cache, remote_tasks, req, last_upsert,
           last_refresh, served>>

\* one batch association lookup
VARIABLES
    assoc_ids,     \* the ids the caller passed
    assoc_pc,      \* "idle", "called", "returned", "raised"
    assoc_asked,   \* history: the size of the inputs of every gateway call
    assoc_result   \* the keys of the map returned

asVars == <<assoc_ids, assoc_pc, assoc_asked, assoc_result>>

\* one unified contact search
VARIABLES
    crm,           \* what the remote answers the calls of the search
    search_pc,     \* where search_contacts is
    seen,          \* the local set seen
    out_contacts,  \* the local list out_contacts
    derived        \* the local list contact_ids_by_company

smVars == <<crm, search_pc, seen, out_contacts, derived>>

\* the dashboard state of one user and the PUT requests that write it
VARIABLES
    user_dashboard_state,  \* the user's row of the table, <<>> when there is none
    put,                   \* put[r]: the locals of the handler of PUT request r
    last_provided,         \* history: per field, the value of the last write that provided it
    puts                   \* history: the PUT requests received so far

dbVars == <<user_dashboard_state, put, last_provided, puts>>

appVars == <<ccVars, asVars, smVars, dbVars>>

vars == <<gwVars, pgVars, appVars>>

\* ---------------------------------------------------------------- helpers
Pow2(n) == 2 ^ n

NoResult == [tag |-> "none", status_code |-> <<>>]

\* history of one call: HTTP attempts made, limiter checks made, timestamps
\* appended, whether every attempt so far failed retryably, the last outcome
\* with its attempt index and time, and the sleep that followed it
NewHist ==
    [http |-> 0, waits |-> 0, stamps |-> 0, onlyRetryable |-> TRUE,
     last |-> <<>>, lastAttempt |-> 0, at |-> 0, slept |-> <<>>]

\* faulty variant: the token is never checked
TokenConfigured_Unchecked(t) == TRUE

\* HubSpotService._get_headers: a token that is None or "" raises
TokenConfigured(t) == t /= ""

\* the while loop of _rate_limit_wait: popleft while the head left the window
RECURSIVE DropExpired(_, _)
DropExpired(q, t) ==
    IF q /= <<>> /\ t - Head(q) >= RATE_LIMIT_WINDOW_SEC
    THEN DropExpired(Tail(q), t)
    ELSE q

\* len(self._request_timestamps) >= RATE_LIMIT_MAX_REQUESTS
WindowFull(q) == Len(q) >= RATE_LIMIT_MAX_REQUESTS

\* sleep_time of _rate_limit_wait, slept only when positive
SleepTime(q, t) ==
    LET sleep_time == RATE_LIMIT_WINDOW_SEC - (t - Head(q))
    IN  IF sleep_time > 0 THEN sleep_time ELSE 0

\* the deque of _rate_limit_wait when it returns: cleared when it was full
QueueAfterWait(q) == IF WindowFull(q) THEN <<>> ELSE q

\* deque.append on a deque(maxlen=...): a full deque drops its head
DequeAppend(q, t) ==
    IF Len(q) >= DequeMaxLen THEN Append(Tail(q), t) ELSE Append(q, t)

\* resp.ok of requests: the status is below 400
RespOk(status) == status < 400

\* faulty variant: every 5xx status is retried
ShouldRetryStatus_Any5xx(status, a, r) == (status = 429 \/ status >= 500) /\ a < r

\* the retry test of _request for a response that is not ok
ShouldRetryStatus(status, a, r) == status \in retry_status_codes /\ a < r

\* faulty variant: the Retry-After header is ignored
BackoffWait_IgnoresHeader(h, a) == Pow2(a)

\* wait of _request: float(retry_after) if retry_after and retry_after.isdigit()
\* else 2 ** attempt
BackoffWait(h, a) ==
    IF h /= <<>> /\ h[1].isdigit THEN h[1].seconds ELSE Pow2(a)

\* faulty variant: the loop runs over range(retries)
HasNextAttempt_OffByOne(a, r) == a + 1 < r

\* range(retries + 1) has an element after a
HasNextAttempt(a, r) == a + 1 < r + 1

\* faulty variant: the loop body starts at the HTTP request
LoopHead_SkipsLimiter == "http"

\* the head of the for loop body, where `continue` goes on: the limiter first
LoopHead == "wait"

\* a response with status 200 and a JSON body
OkOutcome ==
    [kind |-> "resp", status_code |-> 200, retry_after |-> <<>>, content |-> TRUE]

\* ------------------------------------------------------------- pagination
Cursors == 1..MaxCursors
\* the `after` argument of get_tasks / get_contacts: None or a cursor
RequestCursors == {<<>>} \cup {<<k>> : k \in Cursors}
\* the page a list call asks for: 0 without a cursor
PageKey(a) == IF a = <<>> THEN 0 ELSE a[1]
\* the answer to one list call: HubSpotServiceError, or a page of `size`
\* records with paging.next.after = next
RemoteAnswers ==
    {[error |-> TRUE, size |-> 0, next |-> <<>>]}
    \cup [error : {FALSE}, size : 0..MaxPageSize, next : RequestCursors]
\* the records of the page of key k: distinct from those of every other page
PageRecords(k, n) == [j \in 1..n |-> [page |-> k, idx |-> j]]

\* the model keeps the accumulator and the call history exactly up to a
\* length no walk over distinct cursors exceeds, and their prefix beyond it
MaxRecords == (MaxCursors + 1) * MaxPageSize + 1
MaxListed == MaxCursors + 2
Keep(q, n) == IF Len(q) > n THEN SubSeq(q, 1, n) ELSE q

\* faulty variant: the page replaces the accumulator
Accumulate_Overwrites(acc, results) == results

\* all_tasks.extend(results)
Accumulate(acc, results) == acc \o results

\* `if not after or not results: break`
LoopBreaks(a, results) == a = <<>> \/ results = <<>>

\* list_activities (stale cache), sync_activities and list_contacts run the
\* same loop; the handler enters it: all_tasks = [], after = None
StartFetch ==
    /\ fetch_pc = "idle"
    /\ fetch_pc' = "loop"
    /\ after' = <<>>
    /\ all_tasks' = <<>>
    /\ UNCHANGED <<remote, listCalls, callParity>>
    /\ UNCHANGED <<gwVars, appVars>>

\* one iteration of `while True`: the list call and what follows it
FetchPage ==
    /\ fetch_pc = "loop"
    /\ listCalls' = Keep(Append(listCalls, after), MaxListed)
    /\ callParity' = 1 - callParity
    /\ LET ans == remote[PageKey(after)]
           results == PageRecords(PageKey(after), ans.size)
       IN  IF ans.error
           THEN \* HubSpotServiceError leaves the loop for the except clause
                /\ fetch_pc' = "failed"
                /\ UNCHANGED <<after, all_tasks>>
           ELSE /\ all_tasks' = Keep(Accumulate(all_tasks, results), MaxRecords)
                /\ after' = ans.next
                /\ fetch_pc' = IF LoopBreaks(ans.next, results)
                               THEN "fetched" ELSE "loop"
    /\ UNCHANGED remote
    /\ UNCHANGED <<gwVars, appVars>>

\* ----------------------------------------------------------------- actions
\* _request up to the loop: retries default, _get_headers
BeginRequest(c, r) ==
    /\ pc[c] = "idle"
    /\ calls' = [calls EXCEPT ![c] = @ + 1]
    /\ retries' = [retries EXCEPT ![c] = IF r = <<>> THEN max_retries ELSE r[1]]
    /\ attempt' = [attempt EXCEPT ![c] = 0]
    /\ last_exc' = [last_exc EXCEPT ![c] = FALSE]
    /\ hist' = [hist EXCEPT ![c] = NewHist]
    /\ IF TokenConfigured(token[inst[c]])
       THEN /\ pc' = [pc EXCEPT ![c] = LoopHead]
            /\ result' = [result EXCEPT ![c] = NoResult]
       ELSE /\ pc' = [pc EXCEPT ![c] = "raised"]
            /\ result' = [result EXCEPT ![c] =
                            [tag |-> "error", status_code |-> <<>>]]
    /\ UNCHANGED <<now, token, request_timestamps, inst, recorded>>
    /\ UNCHANGED <<pgVars, appVars>>

\* self._rate_limit_wait()
RateLimitWait(c) ==
    /\ pc[c] = "wait"
    /\ LET i == inst[c]
           q == DropExpired(request_timestamps[i], now)
       IN  /\ now' = IF WindowFull(q) THEN now + SleepTime(q, now) ELSE now
           /\ request_timestamps' =
                  [request_timestamps EXCEPT ![i] = QueueAfterWait(q)]
    /\ pc' = [pc EXCEPT ![c] = "record"]
    /\ hist' = [hist EXCEPT ![c].waits = @ + 1]
    /\ UNCHANGED <<token, inst, retries, attempt, last_exc, result, calls,
                   recorded>>
    /\ UNCHANGED <<pgVars, appVars>>

\* self._request_timestamps.append(time.monotonic())
RecordTimestamp(c) ==
    /\ pc[c] = "record"
    /\ LET i == inst[c]
       IN  /\ request_timestamps' =
                  [request_timestamps EXCEPT ![i] = DequeAppend(@, now)]
           /\ recorded' = [recorded EXCEPT ![i] = Append(@, now)]
    /\ pc' = [pc EXCEPT ![c] = "http"]
    /\ hist' = [hist EXCEPT ![c].stamps = @ + 1]
    /\ UNCHANGED <<now, token, inst, retries, attempt, last_exc, result, calls>>
    /\ UNCHANGED <<pgVars, appVars>>

\* a transport failure, or a response with one of the retried statuses
IsRetryable(o) == o.kind = "exc" \/ o.status_code \in retry_status_codes

\* what the history keeps of an outcome: its kind and status, and the
\* Retry-After header when the code read it
Seen(o, readHeader) ==
    [kind |-> o.kind, status_code |-> o.status_code,
     retry_after |-> IF readHeader THEN o.retry_after ELSE <<>>]

\* `continue` of the for loop, after a sleep of d seconds (<<>>: no sleep)
Continue(c, o, d, exc) ==
    /\ now' = IF d = <<>> THEN now ELSE now + d[1]
    /\ last_exc' = [last_exc EXCEPT ![c] = exc]
    /\ hist' = [hist EXCEPT ![c] =
                   [@ EXCEPT !.http = @ + 1,
                             !.onlyRetryable = @ /\ IsRetryable(o),
                             !.last = <<Seen(o, o.kind = "resp")>>,
                             !.lastAttempt = attempt[c], !.at = now,
                             !.slept = d]]
    /\ IF HasNextAttempt(attempt[c], retries[c])
       THEN /\ attempt' = [attempt EXCEPT ![c] = @ + 1]
            /\ pc' = [pc EXCEPT ![c] = LoopHead]
            /\ UNCHANGED result
       ELSE \* the loop is over: the raise after it
            /\ pc' = [pc EXCEPT ![c] = "raised"]
            /\ result' = [result EXCEPT ![c] =
                            [tag |-> "error", status_code |-> <<>>]]
            /\ UNCHANGED attempt

\* the call ends at this attempt
EndCall(c, o, res) ==
    /\ pc' = [pc EXCEPT ![c] = IF res.tag = "error" THEN "raised" ELSE "returned"]
    /\ result' = [result EXCEPT ![c] = res]
    /\ hist' = [hist EXCEPT ![c] =
                   [@ EXCEPT !.http = @ + 1,
                             !.onlyRetryable = @ /\ IsRetryable(o),
                             !.last = <<Seen(o, FALSE)>>,
                             !.lastAttempt = attempt[c], !.at = now,
                             !.slept = <<>>]]
    /\ UNCHANGED <<now, attempt, last_exc>>

\* requests.request(...) and what the loop body does with its outcome
Respond(c, o) ==
    /\ pc[c] = "http"
    /\ IF o.kind = "exc"
       THEN Continue(c, o,
                     IF attempt[c] < retries[c]
                     THEN <<Pow2(attempt[c])>> ELSE <<>>,
                     TRUE)
       ELSE IF RespOk(o.status_code)
       THEN EndCall(c, o,
                    [tag |-> IF o.status_code = 204 \/ ~o.content
                             THEN "empty" ELSE "json",
                     status_code |-> <<o.status_code>>])
       ELSE IF ShouldRetryStatus(o.status_code, attempt[c], retries[c])
       THEN Continue(c, o, <<BackoffWait(o.retry_after, attempt[c])>>,
                     last_exc[c])
       ELSE \* self._handle_error(resp)
            EndCall(c, o, [tag |-> "error", status_code |-> <<o.status_code>>])
    /\ UNCHANGED <<token, request_timestamps, inst, retries, calls, recorded>>
    /\ UNCHANGED <<pgVars, appVars>>

\* the caller takes the result or the error and the locals of the call are
\* gone; it may call _request again
Finish(c) ==
    /\ pc[c] \in {"returned", "raised"}
    /\ pc' = [pc EXCEPT ![c] = "idle"]
    /\ retries' = [retries EXCEPT ![c] = max_retries]
    /\ attempt' = [attempt EXCEPT ![c] = 0]
    /\ last_exc' = [last_exc EXCEPT ![c] = FALSE]
    /\ result' = [result EXCEPT ![c] = NoResult]
    /\ hist' = [hist EXCEPT ![c] = NewHist]
    /\ UNCHANGED <<now, token, request_timestamps, inst, calls, recorded>>
    /\ UNCHANGED <<pgVars, appVars>>

\* time passes
Tick ==
    /\ now < MaxTime
    /\ now' = now + 1
    /\ UNCHANGED <<token, request_timestamps, inst, pc, retries, attempt,
                   last_exc, result, calls, recorded, hist>>
    /\ UNCHANGED <<pgVars, appVars>>

\* ------------------------------------------------------------ tasks cache
\* get_current_user_id: the users of the application; all of them work on the
\* one HubSpot portal the configured token opens
Owners == {1, 2}
\* the inbound requests in flight
Reqs == {1, 2}
TaskIds == 1..MaxTasks
\* an optional value: <<>> is None, <<x>> is x
Options(S) == {<<>>} \cup {<<x>> : x \in S}
\* the JSON object of a task, as a set of <<key, value>> pairs: one task with
\* an associated contact, one without
Payloads == {{<<"contact", 1>>, <<"subject", 1>>}, {<<"subject", 2>>}}
\* _hubspot_task_to_activity: contact_ids is not empty
HasContact(data) == \E kv \in data : kv[1] = "contact"

\* a row of hubspot_tasks_cache
Row(o, id, data, t) ==
    [user_id |-> o, hubspot_task_id |-> id, data |-> data, last_synced_at |-> t]
SameKey(a, b) == a.user_id = b.user_id /\ a.hubspot_task_id = b.hubspot_task_id

\* faulty variant of Upserted: the new JSON object is merged into the old one
Upserted_Merges(tbl, rows) ==
    {old \in tbl : ~\E n \in rows : SameKey(old, n)}
    \cup {[n EXCEPT !.data =
               n.data \cup UNION {{kv \in old.data : ~\E k2 \in n.data : k2[1] = kv[1]}
                                  : old \in {x \in tbl : SameKey(x, n)}}]
          : n \in rows}
\* table.upsert(rows, on_conflict="user_id,hubspot_task_id"): a row with the
\* key of a new row is replaced by it, every column of it
Upserted(tbl, rows) ==
    {old \in tbl : ~\E n \in rows : SameKey(old, n)} \cup rows

\* SupabaseService.get_tasks_cache
get_tasks_cache(o) == {row \in hubspot_tasks_cache : row.user_id = o}

\* faulty variant of get_tasks_cache_freshness: the order is ascending
get_tasks_cache_freshness_Oldest(o) ==
    LET rows == get_tasks_cache(o)
    IN  IF rows = {} THEN <<>>
        ELSE <<(CHOOSE row \in rows : \A other \in rows :
                    row.last_synced_at <= other.last_synced_at).last_synced_at>>
\* SupabaseService.get_tasks_cache_freshness: order by last_synced_at
\* descending, limit 1; None without a row
get_tasks_cache_freshness(o) ==
    LET rows == get_tasks_cache(o)
    IN  IF rows = {} THEN <<>>
        ELSE <<(CHOOSE row \in rows : \A other \in rows :
                    other.last_synced_at <= row.last_synced_at).last_synced_at>>

\* SupabaseService.upsert_task_cache
upsert_task_cache(o, id, data) ==
    Upserted(hubspot_tasks_cache, {Row(o, id, data, clock)})

\* the tasks of a fetched collection: all_tasks[id] is <<>> or <<data>>
Fetched(tasks) == {id \in TaskIds : tasks[id] /= <<>>}
\* SupabaseService.upsert_tasks_cache_bulk: nothing for an empty list, one
\* upsert of all rows otherwise
upsert_tasks_cache_bulk(o, tasks) ==
    IF Fetched(tasks) = {} THEN hubspot_tasks_cache
    ELSE Upserted(hubspot_tasks_cache,
                  {Row(o, id, tasks[id][1], clock) : id \in Fetched(tasks)})

\* faulty variant of delete_task_cache: the filter on user_id is missing
delete_task_cache_AnyOwner(o, id) ==
    {row \in hubspot_tasks_cache : row.hubspot_task_id /= id}
\* SupabaseService.delete_task_cache
delete_task_cache(o, id) ==
    {row \in hubspot_tasks_cache : ~(row.user_id = o /\ row.hubspot_task_id = id)}

\* faulty variant of IsFresh: every age is fresh
IsFresh_Always(age) == TRUE
\* list_activities: (now - synced_dt).total_seconds() < CACHE_FRESH_SECONDS
IsFresh(age) == age < CACHE_FRESH_SECONDS

\* faulty variant of CachedRows: the cache is never consulted
CachedRows_None(o, id) == {}
\* get_activity: the rows of the owner's cache whose hubspot_task_id is the id
CachedRows(o, id) == {row \in get_tasks_cache(o) : row.hubspot_task_id = id}

\* faulty variant of DeleteRaises: the failure of the remote delete is swallowed
DeleteRaises_Never(outcome) == FALSE
\* delete_activity: hubspot.delete_task raised HubSpotServiceError
DeleteRaises(outcome) == outcome /= 204

\* the locals of the handler of one request, and the history of what it did
IdleReq ==
    [op |-> "idle", pc |-> "idle", user_id |-> 0, id |-> 0,
     fresh |-> FALSE, all_tasks |-> <<>>, response |-> <<>>,
     \* history
     age |-> <<>>,          \* the age of the newest row when freshness was read
     refresh_age |-> <<>>,  \* the age of the owner's last completed refresh, then
     parsed |-> FALSE,      \* fromisoformat accepted the timestamp
     held |-> FALSE,        \* the cache held the id when get_activity looked
     fetches |-> 0,         \* remote reads of the collection, or of the record
     enrich_calls |-> 0,    \* remote batch calls of the enrichment
     writes |-> 0,          \* writes to hubspot_tasks_cache
     shrunk |-> FALSE,      \* a write replaced an object by one with fewer keys
     failed |-> FALSE]      \* a remote call raised HubSpotServiceError

\* the activities of a response, from the rows read from the cache
Activities(rows) == {[id |-> row.hubspot_task_id, data |-> row.data] : row \in rows}

\* list_activities g): ActivityListResponse(activities=...), the activities
\* with the contacts the enrichment attached
ListResponse(rows, attached) ==
    [status |-> 200, activities |-> Activities(rows), contacts |-> attached]

\* list_activities e): get_contacts_batch, batch_read_contact_company_ids and
\* get_companies_batch, each inside a try; contacts are attached when the
\* first call returned
ListEnrichments(rows) ==
    IF \E row \in rows : HasContact(row.data)
    THEN {[attached |-> FALSE, calls |-> 1], [attached |-> TRUE, calls |-> 2],
          [attached |-> TRUE, calls |-> 3]}
    ELSE {[attached |-> FALSE, calls |-> 0]}
\* get_activity: get_contacts_batch inside a try
GetEnrichments(data) ==
    IF HasContact(data)
    THEN {[attached |-> FALSE, calls |-> 1], [attached |-> TRUE, calls |-> 1]}
    ELSE {[attached |-> FALSE, calls |-> 0]}

\* the newest last_synced_at of the owner's rows
NewestSync(o) ==
    LET stamps == {row.last_synced_at : row \in get_tasks_cache(o)}
    IN  IF stamps = {} THEN <<>>
        ELSE <<CHOOSE t \in stamps : \A u \in stamps : u <= t>>

\* list_activities a): the freshness of the owner's cache is read and judged;
\* fromisoformat accepts the timestamp or raises ValueError
ListCheck(r, o) ==
    /\ req[r].pc = "idle"
    /\ served' = served + 1
    /\ LET last_synced == get_tasks_cache_freshness(o)
           newest == NewestSync(o)
       IN  \E parses \in (IF last_synced = <<>> THEN {FALSE} ELSE BOOLEAN) :
              LET fresh == /\ last_synced /= <<>>
                           /\ parses
                           /\ IsFresh(clock - last_synced[1])
              IN  req' = [req EXCEPT ![r] =
                            [IdleReq EXCEPT !.op = "list", !.user_id = o,
                                            !.fresh = fresh,
                                            !.pc = IF fresh THEN "read" ELSE "fetch",
                                            !.parsed = parses,
                                            !.age = IF newest = <<>> THEN <<>>
                                                    ELSE <<clock - newest[1]>>,
                                            !.refresh_age =
                                                IF last_refresh[o] = <<>> THEN <<>>
                                                ELSE <<clock - last_refresh[o][1]>>]]
    /\ UNCHANGED <<clock, hubspot_tasks_cache, remote_tasks, last_upsert, last_refresh>>
    /\ UNCHANGED <<gwVars, pgVars, asVars, smVars, dbVars>>

\* the tasks of the pages a pagination loop has fetched when a later page
\* raises: any part of the collection
PagesBeforeError ==
    {[id \in TaskIds |-> IF id \in S THEN remote_tasks[id] ELSE <<>>] :
        S \in SUBSET TaskIds}

\* faulty variant of AfterFetch: the tasks fetched so far are stored also when
\* a page raised
AfterFetch_AlwaysStores(ok) == "store"
\* list_activities b): the bulk upsert follows the loop, and an error of
\* get_tasks leaves the try block for the except branch
AfterFetch(ok) == IF ok THEN "store" ELSE "fallback"

\* list_activities b): the pagination loop over get_tasks, which returns the
\* collection or raises HubSpotServiceError after some pages
ListFetch(r) ==
    /\ req[r].pc = "fetch"
    /\ \E ok \in BOOLEAN :
          \E tasks \in (IF ok THEN {remote_tasks} ELSE PagesBeforeError) :
             req' = [req EXCEPT ![r].fetches = @ + 1,
                                ![r].failed = ~ok,
                                ![r].all_tasks = tasks,
                                ![r].pc = AfterFetch(ok)]
    /\ UNCHANGED <<clock, hubspot_tasks_cache, remote_tasks, last_upsert, last_refresh, served>>
    /\ UNCHANGED <<gwVars, pgVars, asVars, smVars, dbVars>>

\* list_activities b): if all_tasks: upsert_tasks_cache_bulk
ListStore(r) ==
    /\ req[r].pc = "store"
    /\ LET o == req[r].user_id
           tasks == req[r].all_tasks
       IN  /\ hubspot_tasks_cache' = upsert_tasks_cache_bulk(o, tasks)
           /\ last_upsert' = [last_upsert EXCEPT ![o] =
                                [id \in TaskIds |-> IF id \in Fetched(tasks)
                                                    THEN tasks[id] ELSE @[id]]]
           /\ req' = [req EXCEPT ![r].pc = "read",
                                 ![r].writes = IF Fetched(tasks) = {} THEN @ ELSE @ + 1,
                                 ![r].shrunk =
                                     \E id \in Fetched(tasks) : \E old \in CachedRows(o, id) :
                                        \E kv \in old.data :
                                           \A k2 \in tasks[id][1] : k2[1] /= kv[1]]
           /\ last_refresh' = [last_refresh EXCEPT ![o] = <<clock>>]
    /\ UNCHANGED <<clock, remote_tasks, served>>
    /\ UNCHANGED <<gwVars, pgVars, asVars, smVars, dbVars>>

\* list_activities c) to g): the rows of the cache, enriched, are the response
ListRead(r) ==
    /\ req[r].pc = "read"
    /\ LET rows == get_tasks_cache(req[r].user_id)
       IN  \E e \in ListEnrichments(rows) :
              req' = [req EXCEPT ![r].pc = "done",
                                 ![r].response = <<ListResponse(rows, e.attached)>>,
                                 ![r].enrich_calls = e.calls]
    /\ UNCHANGED <<clock, hubspot_tasks_cache, remote_tasks, last_upsert, last_refresh, served>>
    /\ UNCHANGED <<gwVars, pgVars, asVars, smVars, dbVars>>

\* a HubSpotServiceError that leaves a handler: HTTPException 404 or 502
ErrorResponse(code) == [status |-> IF code = 404 THEN 404 ELSE 502]

\* faulty variant of FallbackResponse: the error leaves the handler as a 502
FallbackResponse_Raises(rows) == ErrorResponse(502)
\* list_activities, except HubSpotServiceError: the activities of the rows of
\* the cache, without contacts
FallbackResponse(rows) == ListResponse(rows, FALSE)

\* list_activities, except HubSpotServiceError: the rows of the cache are read
\* and returned
ListFallback(r) ==
    /\ req[r].pc = "fallback"
    /\ req' = [req EXCEPT ![r].pc = "done",
                          ![r].response =
                              <<FallbackResponse(get_tasks_cache(req[r].user_id))>>]
    /\ UNCHANGED <<clock, hubspot_tasks_cache, remote_tasks, last_upsert, last_refresh, served>>
    /\ UNCHANGED <<gwVars, pgVars, asVars, smVars, dbVars>>

\* get_activity: the cache is searched for the id; a row found is the response
GetLookup(r, o, id) ==
    /\ req[r].pc = "idle"
    /\ served' = served + 1
    /\ LET rows == CachedRows(o, id)
           started == [IdleReq EXCEPT !.op = "get", !.user_id = o, !.id = id,
                                      !.held = \E row \in hubspot_tasks_cache :
                                                  /\ row.user_id = o
                                                  /\ row.hubspot_task_id = id]
       IN  IF rows /= {}
           THEN \E row \in rows : \E e \in GetEnrichments(row.data) :
                   req' = [req EXCEPT ![r] =
                             [started EXCEPT !.pc = "done",
                                             !.enrich_calls = e.calls,
                                             !.response = <<[status |-> 200,
                                                             activity |-> [id |-> id, data |-> row.data],
                                                             contacts |-> e.attached]>>]]
           ELSE req' = [req EXCEPT ![r] = [started EXCEPT !.pc = "get_task"]]
    /\ UNCHANGED <<clock, hubspot_tasks_cache, remote_tasks, last_upsert, last_refresh>>
    /\ UNCHANGED <<gwVars, pgVars, asVars, smVars, dbVars>>

\* what the remote answers a call about one task: the call raises with 502
\* at any time, with 404 when the portal has no such task
TaskStatuses(id, okStatus) ==
    {502} \cup (IF remote_tasks[id] = <<>> THEN {404} ELSE {okStatus})

\* get_activity, not in cache: hubspot.get_task returns the task or raises
GetTask(r) ==
    /\ req[r].pc = "get_task"
    /\ \E code \in TaskStatuses(req[r].id, 200) :
          req' = [req EXCEPT ![r].fetches = @ + 1,
                             ![r].failed = code /= 200,
                             ![r].all_tasks = IF code = 200 THEN remote_tasks[req[r].id] ELSE @,
                             ![r].pc = IF code = 200 THEN "get_upsert" ELSE "done",
                             ![r].response = IF code = 200 THEN @ ELSE <<ErrorResponse(code)>>]
    /\ UNCHANGED <<clock, hubspot_tasks_cache, remote_tasks, last_upsert, last_refresh, served>>
    /\ UNCHANGED <<gwVars, pgVars, asVars, smVars, dbVars>>

\* get_activity, not in cache: upsert_task_cache, then the task is the response
GetUpsert(r) ==
    /\ req[r].pc = "get_upsert"
    /\ LET o == req[r].user_id
           id == req[r].id
           task == req[r].all_tasks[1]
       IN  /\ hubspot_tasks_cache' = upsert_task_cache(o, id, task)
           /\ last_upsert' = [last_upsert EXCEPT ![o][id] = <<task>>]
           /\ \E e \in GetEnrichments(task) :
                 req' = [req EXCEPT ![r].pc = "done",
                                    ![r].writes = @ + 1,
                                    ![r].enrich_calls = e.calls,
                                    ![r].response = <<[status |-> 200,
                                                       activity |-> [id |-> id, data |-> task],
                                                       contacts |-> e.attached]>>]
    /\ UNCHANGED <<clock, remote_tasks, last_refresh, served>>
    /\ UNCHANGED <<gwVars, pgVars, asVars, smVars, dbVars>>

\* create_activity: hubspot.create_task makes a task under an id the portal
\* does not use yet and returns it, or raises
CreateRemote(r, o, id, task) ==
    /\ req[r].pc = "idle"
    /\ remote_tasks[id] = <<>>
    /\ served' = served + 1
    /\ \E ok \in BOOLEAN :
          LET started == [IdleReq EXCEPT !.op = "create", !.user_id = o, !.id = id,
                                         !.failed = ~ok]
          IN  /\ remote_tasks' = IF ok THEN [remote_tasks EXCEPT ![id] = <<task>>]
                                 ELSE remote_tasks
              /\ req' = [req EXCEPT ![r] =
                           IF ok
                           THEN [started EXCEPT !.pc = "create_upsert",
                                                !.all_tasks = <<task>>]
                           ELSE [started EXCEPT !.pc = "done",
                                                !.response = <<ErrorResponse(502)>>]]
    /\ UNCHANGED <<clock, hubspot_tasks_cache, last_upsert, last_refresh>>
    /\ UNCHANGED <<gwVars, pgVars, asVars, smVars, dbVars>>

\* create_activity: upsert_task_cache, then the task is the response
CreateUpsert(r) ==
    /\ req[r].pc = "create_upsert"
    /\ LET o == req[r].user_id
           id == req[r].id
           task == req[r].all_tasks[1]
       IN  /\ hubspot_tasks_cache' = upsert_task_cache(o, id, task)
           /\ last_upsert' = [last_upsert EXCEPT ![o][id] = <<task>>]
           /\ req' = [req EXCEPT ![r].pc = "done",
                                 ![r].writes = @ + 1,
                                 ![r].response = <<[status |-> 201,
                                                    activity |-> [id |-> id, data |-> task]]>>]
    /\ UNCHANGED <<clock, remote_tasks, last_refresh, served>>
    /\ UNCHANGED <<gwVars, pgVars, asVars, smVars, dbVars>>

\* delete_activity: hubspot.delete_task archives the task (204) or raises
DeleteRemote(r, o, id) ==
    /\ req[r].pc = "idle"
    /\ served' = served + 1
    /\ \E code \in TaskStatuses(id, 204) :
          LET started == [IdleReq EXCEPT !.op = "delete", !.user_id = o, !.id = id,
                                         !.failed = code /= 204]
          IN  /\ remote_tasks' = IF code = 204 THEN [remote_tasks EXCEPT ![id] = <<>>]
                                 ELSE remote_tasks
              /\ req' = [req EXCEPT ![r] =
                           IF DeleteRaises(code)
                           THEN [started EXCEPT !.pc = "done",
                                                !.response = <<ErrorResponse(code)>>]
                           ELSE [started EXCEPT !.pc = "delete_cache"]]
    /\ UNCHANGED <<clock, hubspot_tasks_cache, last_upsert, last_refresh>>
    /\ UNCHANGED <<gwVars, pgVars, asVars, smVars, dbVars>>

\* delete_activity: delete_task_cache, then the message is the response
DeleteCache(r) ==
    /\ req[r].pc = "delete_cache"
    /\ LET o == req[r].user_id
           id == req[r].id
       IN  /\ hubspot_tasks_cache' = delete_task_cache(o, id)
           /\ last_upsert' = [last_upsert EXCEPT ![o][id] = <<>>]
           /\ req' = [req EXCEPT ![r].pc = "done",
                                 ![r].writes = @ + 1,
                                 ![r].response = <<[status |-> 200]>>]
    /\ UNCHANGED <<clock, remote_tasks, last_refresh, served>>
    /\ UNCHANGED <<gwVars, pgVars, asVars, smVars, dbVars>>

\* the response is sent and the request is over
Return(r) ==
    /\ req[r].pc = "done"
    /\ req' = [req EXCEPT ![r] = IdleReq]
    /\ UNCHANGED <<clock, hubspot_tasks_cache, remote_tasks, last_upsert, last_refresh, served>>
    /\ UNCHANGED <<gwVars, pgVars, asVars, smVars, dbVars>>

\* a user of the portal creates, edits or archives a task in HubSpot
RemoteEdit(id, task) ==
    /\ remote_tasks[id] /= task
    /\ remote_tasks' = [remote_tasks EXCEPT ![id] = task]
    /\ UNCHANGED <<clock, hubspot_tasks_cache, req, last_upsert, last_refresh, served>>
    /\ UNCHANGED <<gwVars, pgVars, asVars, smVars, dbVars>>

\* time passes
ClockTick ==
    /\ clock < MaxTicks * ClockStep
    /\ clock' = clock + ClockStep
    /\ UNCHANGED <<hubspot_tasks_cache, remote_tasks, req, last_upsert, last_refresh, served>>
    /\ UNCHANGED <<gwVars, pgVars, asVars, smVars, dbVars>>

\* an empty cache, an empty portal and no request in flight
CacheIdle ==
    /\ clock = 0
    /\ hubspot_tasks_cache = {}
    /\ remote_tasks = [id \in TaskIds |-> <<>>]
    /\ req = [r \in Reqs |-> IdleReq]
    /\ last_upsert = [o \in Owners |-> [id \in TaskIds |-> <<>>]]
    /\ last_refresh = [o \in Owners |-> <<>>]
    /\ served = 0

\* -------------------------------------------------- batch association lookup
\* the ids a caller passes: n distinct ids, written 1..n
IdList(n) == [i \in 1..n |-> i]

\* faulty variant of BatchInputs: the whole list is sent
BatchInputs_Unbounded(ids) == ids
\* batch_read_task_associations, batch_read_contact_company_ids: the inputs of
\* the one gateway call are ids[:100]
BatchInputs(ids) == SubSeq(ids, 1, IF Len(ids) < BATCH_READ_LIMIT THEN Len(ids) ELSE BATCH_READ_LIMIT)

\* a caller passes a list of n ids
AssocStart(n) ==
    /\ assoc_pc = "idle"
    /\ assoc_ids' = IdList(n)
    /\ assoc_pc' = "called"
    /\ UNCHANGED <<assoc_asked, assoc_result>>
    /\ UNCHANGED <<gwVars, pgVars, ccVars, smVars, dbVars>>

\* batch_read_task_associations: {} for an empty list; otherwise one _request,
\* which raises or answers with one result for every id of the inputs, and
\* the map has one key for every result
AssocRead ==
    /\ assoc_pc = "called"
    /\ IF assoc_ids = <<>>
       THEN /\ assoc_pc' = "returned"
            /\ assoc_result' = {}
            /\ UNCHANGED assoc_asked
       ELSE LET inputs == BatchInputs(assoc_ids)
            IN  /\ assoc_asked' = Append(assoc_asked, Len(inputs))
                /\ \E ok \in BOOLEAN :
                      /\ assoc_pc' = IF ok THEN "returned" ELSE "raised"
                      /\ assoc_result' = IF ok THEN {inputs[i] : i \in 1..Len(inputs)}
                                         ELSE {}
    /\ UNCHANGED assoc_ids
    /\ UNCHANGED <<gwVars, pgVars, ccVars, smVars, dbVars>>

\* the caller has the map, or the error
AssocEnd ==
    /\ assoc_pc \in {"returned", "raised"}
    /\ assoc_pc' = "idle"
    /\ assoc_ids' = <<>>
    /\ assoc_asked' = <<>>
    /\ assoc_result' = {}
    /\ UNCHANGED <<gwVars, pgVars, ccVars, smVars, dbVars>>

\* no lookup is running
AssocIdle ==
    /\ assoc_ids = <<>>
    /\ assoc_pc = "idle"
    /\ assoc_asked = <<>>
    /\ assoc_result = {}

\* --------------------------------------------------- unified contact search
ContactIds == 1..MaxContacts
CompanyIds == {1, 2}
\* the lists of at most n elements of S
SeqsUpTo(S, n) == UNION {[1..k -> S] : k \in 0..n}
\* what hubspot.search_contacts and batch_read_contact_company_ids answer: the
\* search raises, or returns hits; the company lookup raises, or returns the
\* first company of every hit that has one
DirectAnswers ==
    [error : {TRUE}, results : {<<>>}, lookup_error : {FALSE},
     company_of : {[c \in ContactIds |-> <<>>]}]
    \cup [error : {FALSE}, results : SeqsUpTo(ContactIds, MaxHits),
          lookup_error : {TRUE}, company_of : {[c \in ContactIds |-> <<>>]}]
    \cup [error : {FALSE}, results : SeqsUpTo(ContactIds, MaxHits),
          lookup_error : {FALSE}, company_of : [ContactIds -> Options(CompanyIds)]]
\* what get_company_contact_ids answers for one company: it raises, or
\* returns contact ids
MemberAnswers == [error : {TRUE}, ids : {<<>>}]
                 \cup [error : {FALSE}, ids : SeqsUpTo(ContactIds, MaxHits)]
                 \cup [error : {FALSE}, ids : {IdList(MaxIds)}]
\* what hubspot.search_companies answers: it raises, or returns companies
CompanyAnswers ==
    [error : {TRUE}, companies : {<<>>}]
    \cup [error : {FALSE},
          companies : {s \in SeqsUpTo(CompanyIds, 2) :
                          \A i, j \in 1..Len(s) : s[i] = s[j] => i = j}]

\* history: the hits of the contact search, and the contacts the companies
\* found are associated with (members, and by_company for each company);
\* bare holds the hits step 1) appended without a company, failed the remote
\* calls that raised, missing the contacts the batch read had no record of
NoAnswers ==
    [hits |-> <<>>, members |-> {}, by_company |-> [c \in CompanyIds |-> {}],
     bare |-> {}, failed |-> {}, missing |-> {}]

\* the elements of a list
Range(s) == {s[i] : i \in 1..Len(s)}

\* faulty variant of AlreadySeen: the set seen is not consulted
AlreadySeen_Never(cid, s) == FALSE
\* search_contacts: cid in seen
AlreadySeen(cid, s) == cid \in s

\* search_contacts 1): for hc in c_results, a hit not seen yet is marked seen
\* and appended with the company found for it
RECURSIVE EmitDirect(_, _, _, _)
EmitDirect(c_results, company_by_contact, s, out) ==
    IF c_results = <<>> THEN [seen |-> s, out |-> out]
    ELSE LET cid == Head(c_results)
         IN  IF AlreadySeen(cid, s)
             THEN EmitDirect(Tail(c_results), company_by_contact, s, out)
             ELSE EmitDirect(Tail(c_results), company_by_contact, s \cup {cid},
                             Append(out, [id |-> cid,
                                          company_id |-> company_by_contact[cid]]))

\* search_contacts 2): for cid in cids, a contact not seen yet is marked seen
\* and appended to contact_ids_by_company; when the loop reaches cids[i], seen
\* holds s and every cids[j] with j < i
CollectMembers(cids, coid, s, acc) ==
    LET SeenAt(i) == s \cup {cids[j] : j \in 1..(i - 1)}
        kept == SelectSeq([i \in 1..Len(cids) |-> i],
                          LAMBDA i : ~AlreadySeen(cids[i], SeenAt(i)))
    IN  [seen |-> s \cup Range(cids),
         acc |-> acc \o [k \in 1..Len(kept) |->
                            [id |-> cids[kept[k]], company_id |-> <<coid>>]]]

\* search_contacts 2): for co in companies, with get_company_contact_ids in a
\* try of its own
RECURSIVE CollectCompanies(_, _, _, _)
CollectCompanies(companies, members, s, acc) ==
    IF companies = <<>> THEN [seen |-> s, acc |-> acc]
    ELSE LET coid == Head(companies)
             step == IF members[coid].error THEN [seen |-> s, acc |-> acc]
                     ELSE CollectMembers(members[coid].ids, coid, s, acc)
         IN  CollectCompanies(Tail(companies), members, step.seen, step.acc)

\* the records of a batch read: the contacts among contact_ids[:100] that the
\* remote holds, in the order of the inputs
BatchRecords(ids_to_fetch, held) ==
    SelectSeq(BatchInputs(ids_to_fetch), LAMBDA t : t.id \in held)

\* faulty variant of AppendAll: the records are put before the contacts
\* appended so far
AppendAll_InFront(out, records) == records \o out
\* search_contacts 2): for hc in batch, out_contacts.append
AppendAll(out, records) == out \o records

\* faulty variant of BatchFailure: the error discards the contacts appended
\* so far
BatchFailure_Drops(out) == <<>>
\* search_contacts 2): except HubSpotServiceError logs, and out_contacts
\* stays as step 1) left it
BatchFailure(out) == out

\* search_contacts 1): the contact search and its enrichment, in one try
SearchDirect ==
    /\ search_pc = "idle"
    /\ \E ans \in DirectAnswers :
          LET step == IF ans.error THEN [seen |-> {}, out |-> <<>>]
                      ELSE EmitDirect(ans.results, ans.company_of, {}, <<>>)
          IN  /\ seen' = step.seen
              /\ out_contacts' = step.out
              /\ crm' = [crm EXCEPT
                            !.hits = ans.results,
                            !.bare = {step.out[i].id : i \in
                                         {k \in 1..Len(step.out) :
                                             step.out[k].company_id = <<>>}},
                            !.failed = (IF ans.error THEN {"direct"} ELSE {})
                                       \cup (IF ans.lookup_error THEN {"lookup"}
                                             ELSE {})]
    /\ search_pc' = "companies"
    /\ UNCHANGED derived
    /\ UNCHANGED <<gwVars, pgVars, ccVars, asVars, dbVars>>

\* search_contacts 2): the company search and the contacts of every company
SearchCompanies ==
    /\ search_pc = "companies"
    /\ \E ans \in CompanyAnswers : \E members \in [CompanyIds -> MemberAnswers] :
          LET step == IF ans.error THEN [seen |-> seen, acc |-> <<>>]
                      ELSE CollectCompanies(ans.companies, members, seen, <<>>)
          IN  /\ seen' = step.seen
              /\ derived' = step.acc
              /\ search_pc' = IF step.acc = <<>> THEN "done" ELSE "batch"
              /\ crm' = [crm EXCEPT
                            !.members =
                               UNION {{members[ans.companies[i]].ids[j] :
                                          j \in 1..Len(members[ans.companies[i]].ids)}
                                      : i \in 1..Len(ans.companies)},
                            !.by_company =
                               [c \in CompanyIds |->
                                   IF c \in Range(ans.companies)
                                   THEN Range(members[c].ids) ELSE {}],
                            !.failed =
                               crm.failed
                               \cup (IF ans.error THEN {"companies"} ELSE {})
                               \cup (IF \E c \in Range(ans.companies) :
                                           members[c].error
                                     THEN {"members"} ELSE {})]
    /\ UNCHANGED out_contacts
    /\ UNCHANGED <<gwVars, pgVars, ccVars, asVars, dbVars>>

\* search_contacts 2): get_contacts_batch raises, or returns the records of
\* the contacts asked for that the remote holds; every record is appended
SearchBatch ==
    /\ search_pc = "batch"
    /\ \/ /\ out_contacts' = BatchFailure(out_contacts)
          /\ crm' = [crm EXCEPT !.failed = crm.failed \cup {"batch"}]
       \/ \E missing \in SUBSET ContactIds :
             /\ out_contacts' =
                   AppendAll(out_contacts,
                             BatchRecords(BatchInputs(derived),
                                          (1..MaxIds) \ missing))
             /\ crm' = [crm EXCEPT !.missing = missing]
    /\ search_pc' = "done"
    /\ UNCHANGED <<seen, derived>>
    /\ UNCHANGED <<gwVars, pgVars, ccVars, asVars, dbVars>>

\* the ContactListResponse is sent
SearchReturn ==
    /\ search_pc = "done"
    /\ search_pc' = "idle"
    /\ seen' = {}
    /\ out_contacts' = <<>>
    /\ derived' = <<>>
    /\ crm' = NoAnswers
    /\ UNCHANGED <<gwVars, pgVars, ccVars, asVars, dbVars>>

\* no search is running
SearchIdle ==
    /\ crm = NoAnswers
    /\ search_pc = "idle"
    /\ seen = {}
    /\ out_contacts = <<>>
    /\ derived = <<>>

\* ------------------------------------------------------- dashboard state
\* the columns of user_dashboard_state that a PUT can provide
DashboardFields ==
    {"selected_activity_id", "sort_option", "filter_state", "date_picker_value"}
\* a value of a column: 0 stands for what the column holds before any PUT
\* (None, DEFAULT_SORT_OPTION, {}), k for the value the k-th PUT carries
NoRow == [f \in DashboardFields |-> 0]
\* get_dashboard_state: the row, or None
get_dashboard_state == user_dashboard_state

\* upsert_dashboard_state: the row built from existing (or the defaults) and
\* overridden by the keys of data
MergedRow(existing, data, value) ==
    [f \in DashboardFields |->
        IF f \in data THEN value
        ELSE IF existing = <<>> THEN 0 ELSE existing[1][f]]

\* the DashboardStateResponse for a row, or for the defaults
DashboardStateResponse(state) == IF state = <<>> THEN NoRow ELSE state[1]

IdlePut == [pc |-> "idle", data |-> {}, value |-> 0, existing |-> <<>>,
            response |-> <<>>]

\* put_dashboard_state: body.model_dump(exclude_none=True) holds the keys data
PutStart(r, data) ==
    /\ put[r].pc = "idle"
    /\ puts < MaxPuts
    /\ puts' = puts + 1
    /\ put' = [put EXCEPT ![r] = [IdlePut EXCEPT !.pc = "read", !.data = data,
                                                !.value = puts + 1]]
    /\ UNCHANGED <<user_dashboard_state, last_provided>>
    /\ UNCHANGED <<gwVars, pgVars, ccVars, asVars, smVars>>

\* put_dashboard_state: with no key the current state is returned; otherwise
\* upsert_dashboard_state reads existing
PutRead(r) ==
    /\ put[r].pc = "read"
    /\ put' = [put EXCEPT ![r] =
                  IF put[r].data = {}
                  THEN [@ EXCEPT !.pc = "done",
                                 !.response =
                                    <<DashboardStateResponse(get_dashboard_state)>>]
                  ELSE [@ EXCEPT !.pc = "write",
                                 !.existing = get_dashboard_state]]
    /\ UNCHANGED <<user_dashboard_state, last_provided, puts>>
    /\ UNCHANGED <<gwVars, pgVars, ccVars, asVars, smVars>>

\* upsert_dashboard_state: the merged row is upserted on user_id and returned
PutWrite(r) ==
    /\ put[r].pc = "write"
    /\ LET row == MergedRow(put[r].existing, put[r].data, put[r].value)
       IN  /\ user_dashboard_state' = <<row>>
           /\ put' = [put EXCEPT ![r].pc = "done", ![r].response = <<row>>]
    /\ last_provided' = [f \in DashboardFields |->
                            IF f \in put[r].data THEN put[r].value
                            ELSE last_provided[f]]
    /\ UNCHANGED puts
    /\ UNCHANGED <<gwVars, pgVars, ccVars, asVars, smVars>>

\* the response is sent
PutReturn(r) ==
    /\ put[r].pc = "done"
    /\ put' = [put EXCEPT ![r] = IdlePut]
    /\ UNCHANGED <<user_dashboard_state, last_provided, puts>>
    /\ UNCHANGED <<gwVars, pgVars, ccVars, asVars, smVars>>

\* no row yet and no PUT running
DashboardIdle ==
    /\ user_dashboard_state = <<>>
    /\ put = [r \in Reqs |-> IdlePut]
    /\ last_provided = NoRow
    /\ puts = 0

\* none of the handlers above is running
AppIdle == CacheIdle /\ AssocIdle /\ SearchIdle /\ DashboardIdle

\* ------------------------------------------------------------ specifications
\* HubSpotService.__init__, once per instance; get_hubspot_service gives every
\* caller an instance of its own
InitGateway(instOf) ==
    /\ now = 0
    /\ \E t \in Tokens : token = [i \in Instances |-> t]
    /\ request_timestamps = [i \in Instances |-> <<>>]
    /\ inst = instOf
    /\ pc = [c \in Callers |-> "idle"]
    /\ retries = [c \in Callers |-> max_retries]
    /\ attempt = [c \in Callers |-> 0]
    /\ last_exc = [c \in Callers |-> FALSE]
    /\ result = [c \in Callers |-> NoResult]
    /\ calls = [c \in Callers |-> 0]
    /\ recorded = [i \in Instances |-> <<>>]
    /\ hist = [c \in Callers |-> NewHist]

\* no list handler is running
PagingIdle ==
    /\ remote = [k \in 0..MaxCursors |-> [error |-> FALSE, size |-> 0, next |-> <<>>]]
    /\ fetch_pc = "idle"
    /\ after = <<>>
    /\ all_tasks = <<>>
    /\ listCalls = <<>>
    /\ callParity = 0

Init == InitGateway([c \in Callers |-> c]) /\ PagingIdle /\ AppIdle

\* a token is configured on every instance
InitLimiter ==
    /\ InitGateway([c \in Callers |-> c])
    /\ \A i \in Instances : token[i] /= ""
    /\ PagingIdle
    /\ AppIdle

\* two threads hold the same HubSpotService instance
InitThreads ==
    /\ InitGateway([c \in Callers |-> 1])
    /\ \A i \in Instances : token[i] /= ""
    /\ PagingIdle
    /\ AppIdle

\* a list handler is about to run against a remote of any behaviour
InitPaging ==
    /\ InitGateway([c \in Callers |-> c])
    /\ \A i \in Instances : token[i] /= ""
    /\ remote \in [0..MaxCursors -> RemoteAnswers]
    /\ fetch_pc = "idle"
    /\ after = <<>>
    /\ all_tasks = <<>>
    /\ listCalls = <<>>
    /\ callParity = 0
    /\ AppIdle

\* one caller, every outcome of every attempt
Next ==
    \/ \E r \in RetriesArgs : calls[1] < MaxCalls /\ BeginRequest(1, r)
    \/ RateLimitWait(1)
    \/ RecordTimestamp(1)
    \/ \E o \in Outcomes : Respond(1, o)
    \/ Finish(1)

Spec == Init /\ [][Next]_vars

\* one caller whose every attempt is answered 200, and time passing
NextLimiter ==
    \/ Tick
    \/ calls[1] < MaxBurst /\ BeginRequest(1, <<>>)
    \/ RateLimitWait(1)
    \/ RecordTimestamp(1)
    \/ Respond(1, OkOutcome)
    \/ Finish(1)

SpecLimiter == InitLimiter /\ [][NextLimiter]_vars

\* two callers whose every attempt is answered 200
NextCallers ==
    \E c \in Callers :
        \/ calls[1] + calls[2] < MaxBurst /\ BeginRequest(c, <<>>)
        \/ RateLimitWait(c)
        \/ RecordTimestamp(c)
        \/ Respond(c, OkOutcome)
        \/ Finish(c)

\* two inbound requests, each with the instance get_hubspot_service gave it
SpecRequests == InitLimiter /\ [][NextCallers]_vars

\* two threads on one instance
SpecThreads == InitThreads /\ [][NextCallers]_vars

\* the pagination loop of one handler; the handler runs on, every list call
\* returns or raises (requests has a timeout of 30 s)
NextPaging == StartFetch \/ FetchPage

SpecPaging == InitPaging /\ [][NextPaging]_vars /\ WF_vars(NextPaging)

\* requests handled one after the other, by any owner, while the portal
\* changes and time passes
NextCache ==
    \/ ClockTick
    \/ \E id \in TaskIds : \E task \in Options(Payloads) : RemoteEdit(id, task)
    \/ \E o \in Owners : served < MaxRequests /\ ListCheck(1, o)
    \/ ListFetch(1)
    \/ ListStore(1)
    \/ ListRead(1)
    \/ ListFallback(1)
    \/ \E o \in Owners : \E id \in TaskIds : served < MaxRequests /\ GetLookup(1, o, id)
    \/ GetTask(1)
    \/ GetUpsert(1)
    \/ \E o \in Owners : \E id \in TaskIds : served < MaxRequests /\ DeleteRemote(1, o, id)
    \/ DeleteCache(1)
    \/ Return(1)

SpecCache == InitLimiter /\ [][NextCache]_vars

\* requests that write one record (create, point lookup) and list requests,
\* handled one after the other
NextWrites ==
    \/ ClockTick
    \/ \E o \in Owners : served < MaxRequests /\ ListCheck(1, o)
    \/ ListFetch(1)
    \/ ListStore(1)
    \/ ListRead(1)
    \/ ListFallback(1)
    \/ \E o \in Owners : \E id \in TaskIds : \E task \in Payloads :
          served < MaxRequests /\ CreateRemote(1, o, id, task)
    \/ CreateUpsert(1)
    \/ \E o \in Owners : \E id \in TaskIds : served < MaxRequests /\ GetLookup(1, o, id)
    \/ GetTask(1)
    \/ GetUpsert(1)
    \/ Return(1)

SpecWrites == InitLimiter /\ [][NextWrites]_vars

\* a portal that holds every task, an empty cache and no request in flight
InitRace ==
    /\ InitGateway([c \in Callers |-> c])
    /\ \A i \in Instances : token[i] /= ""
    /\ PagingIdle
    /\ AssocIdle
    /\ SearchIdle
    /\ DashboardIdle
    /\ clock = 0
    /\ hubspot_tasks_cache = {}
    /\ remote_tasks = [id \in TaskIds |-> <<{<<"subject", 2>>}>>]
    /\ req = [r \in Reqs |-> IdleReq]
    /\ last_upsert = [o \in Owners |-> [id \in TaskIds |-> <<>>]]
    /\ last_refresh = [o \in Owners |-> <<>>]
    /\ served = 0

\* list requests on one request slot and delete requests on the other, their
\* steps interleaved; the portal changes by the deletes only
NextRace ==
    \/ ClockTick
    \/ \E o \in Owners : served < MaxRequests /\ ListCheck(1, o)
    \/ ListFetch(1)
    \/ ListStore(1)
    \/ ListRead(1)
    \/ ListFallback(1)
    \/ \E o \in Owners : \E id \in TaskIds : served < MaxRequests /\ DeleteRemote(2, o, id)
    \/ DeleteCache(2)
    \/ \E r \in Reqs : Return(r)

SpecRace == InitRace /\ [][NextRace]_vars

\* the instants a row can have been written at
Stamps == {k * ClockStep : k \in 0..MaxTicks}
\* the table that has a row written at stamp[<<o, id>>] for every key with one
TableOf(stamp) ==
    {Row(key[1], key[2], {<<"subject", 2>>}, stamp[key][1])
        : key \in {k \in Owners \X TaskIds : stamp[k] /= <<>>}}
\* any cache that single upserts and bulk upserts of earlier requests left
InitFreshness ==
    /\ InitGateway([c \in Callers |-> c])
    /\ \A i \in Instances : token[i] /= ""
    /\ PagingIdle
    /\ AssocIdle
    /\ SearchIdle
    /\ DashboardIdle
    /\ clock = MaxTicks * ClockStep
    /\ \E stamp \in [Owners \X TaskIds -> Options(Stamps)] :
          /\ hubspot_tasks_cache = TableOf(stamp)
          /\ last_upsert = [o \in Owners |-> [id \in TaskIds |->
                               IF stamp[<<o, id>>] = <<>> THEN <<>>
                               ELSE <<{<<"subject", 2>>}>>]]
    /\ remote_tasks = [id \in TaskIds |-> <<>>]
    /\ req = [r \in Reqs |-> IdleReq]
    /\ last_refresh = [o \in Owners |-> <<>>]
    /\ served = 0

\* list requests against such a cache
NextFreshness ==
    \/ \E o \in Owners : served < MaxRequests /\ ListCheck(1, o)
    \/ ListFetch(1)
    \/ ListStore(1)
    \/ ListRead(1)
    \/ ListFallback(1)
    \/ Return(1)

SpecFreshness == InitFreshness /\ [][NextFreshness]_vars

\* batch association lookups over lists of 0 to MaxIds ids
NextAssoc ==
    \/ \E n \in 0..MaxIds : AssocStart(n)
    \/ AssocRead
    \/ AssocEnd

SpecAssoc == InitLimiter /\ [][NextAssoc]_vars

\* unified contact searches against a remote of any answers
NextSearch == SearchDirect \/ SearchCompanies \/ SearchBatch \/ SearchReturn

SpecSearch == InitLimiter /\ [][NextSearch]_vars

\* ------------------------------------------------------------------ claims
\* the last element of a non-empty sequence
Last(r) == r[Len(r)]

\* the timestamps of r in the 10-second window that ends at t: (t - 10, t]
WindowCount(r, t) ==
    Cardinality({j \in 1..Len(r) :
                    r[j] > t - RATE_LIMIT_WINDOW_SEC /\ r[j] <= t})

\* the failure the caller's next attempt follows, and its attempt index
LastFailure(c) == hist[c].last[1]

\* C1: for every sequence of attempts through one HubSpotService instance, no
\* sliding 10-second window holds more than 95 recorded attempt timestamps
\* (it is enough to look at the window that ends at the newest timestamp).
C1_InstanceWindowBound ==
    \A i \in Instances :
        recorded[i] /= <<>> =>
            WindowCount(recorded[i], Last(recorded[i])) <= RATE_LIMIT_MAX_REQUESTS

C3_CredentialWindowBound ==
    \A i \in Instances :
        recorded[i] /= <<>> =>
            LET t == Last(recorded[i])
                same == {k \in Instances : token[k] = token[i]}
            IN  \A k1, k2 \in same :
                    k1 /= k2 =>
                        WindowCount(recorded[k1], t) + WindowCount(recorded[k2], t)
                            <= RATE_LIMIT_MAX_REQUESTS

\* C4: the size check of the deque and the recording of the new timestamp are
\* atomic with respect to another caller of the same instance: the callers
\* that passed the check and have not recorded yet never outnumber the free
\* slots of the window, and the deque holds exactly the timestamps recorded
\* since it was last emptied (none lost, none counted twice, so never more
\* than 95).
C4_CheckAndRecordAtomic ==
    \A i \in Instances :
        Len(request_timestamps[i])
            + Cardinality({c \in Callers : inst[c] = i /\ pc[c] = "record"})
          <= RATE_LIMIT_MAX_REQUESTS

\* C5 as stated: between a failed retryable attempt with index a and the next
\* attempt of the call, the sleep is the seconds of the Retry-After header
\* when the response carried one, and 2^a seconds when it carried none or the
\* failure was a transport failure.
C5_BackoffRetryAfterOrPow2 ==
    \A c \in Callers :
        (pc[c] = "wait" /\ attempt[c] > 0) =>
            LET f == LastFailure(c)
                a == hist[c].lastAttempt
                expected == IF f.retry_after /= <<>>
                            THEN f.retry_after[1].seconds
                            ELSE 2 ^ a
            IN  /\ a = attempt[c] - 1
                /\ hist[c].slept = <<expected>>
                /\ now - hist[c].at = expected

\* C5 amended: the sleep is the seconds of the Retry-After header when the
\* response carried one made of decimal digits only, and 2^a seconds when it
\* carried none, one that is not all digits, or the failure was a transport
\* failure.
C5_BackoffDigitsOrPow2 ==
    \A c \in Callers :
        (pc[c] = "wait" /\ attempt[c] > 0) =>
            LET f == LastFailure(c)
                a == hist[c].lastAttempt
                expected == IF f.retry_after /= <<>> /\ f.retry_after[1].isdigit
                            THEN f.retry_after[1].seconds
                            ELSE 2 ^ a
            IN  /\ a = attempt[c] - 1
                /\ hist[c].slept = <<expected>>
                /\ now - hist[c].at = expected

\* C5 witness: the second attempt failed with 429 and Retry-After: 1, and the
\* call slept 1 second (not 2^1) before its third attempt
C5_Witness ==
    \E c \in Callers :
        /\ pc[c] = "wait"
        /\ attempt[c] = 2
        /\ LastFailure(c).status_code = 429
        /\ LastFailure(c).retry_after = <<[isdigit |-> TRUE, seconds |-> 1]>>
        /\ hist[c].slept = <<1>>
        /\ now - hist[c].at = 1

\* what C6 says of a call whose last response had status s
EndsWithStatus(c, s) ==
    /\ pc[c] = "raised"
    /\ result[c] = [tag |-> "error", status_code |-> <<s>>]
    /\ hist[c].slept = <<>>
    /\ hist[c].http = hist[c].lastAttempt + 1
    /\ now = hist[c].at

C7_OneTimestampPerAttempt ==
    \A c \in Callers :
        /\ pc[c] = "http" =>
               /\ hist[c].waits = hist[c].http + 1
               /\ hist[c].stamps = hist[c].http + 1
               /\ request_timestamps[inst[c]] /= <<>>
               /\ Last(request_timestamps[inst[c]]) = now
        /\ pc[c] \in {"returned", "raised"} =>
               /\ hist[c].waits = hist[c].http
               /\ hist[c].stamps = hist[c].http

\* C7 witness: a call ended after 4 attempts and 4 recorded timestamps
C7_Witness ==
    \E c \in Callers :
        /\ pc[c] \in {"returned", "raised"}
        /\ hist[c].http = max_retries + 1
        /\ hist[c].stamps = max_retries + 1

\* C8: on an instance without a credential a _request call raises before any
\* HTTP attempt, limiter check, recorded timestamp or sleep; the deque of the
\* instance stays as it was (empty: no call of the instance ever records).
C8_NoCredentialFailsFast ==
    \A c \in Callers :
        (token[inst[c]] = "" /\ pc[c] /= "idle") =>
            /\ pc[c] = "raised"
            /\ result[c] = [tag |-> "error", status_code |-> <<>>]
            /\ hist[c].http = 0
            /\ hist[c].waits = 0
            /\ hist[c].stamps = 0
            /\ hist[c].slept = <<>>
            /\ request_timestamps[inst[c]] = <<>>
            /\ recorded[inst[c]] = <<>>
            /\ now = 0

\* C8 witness: a call on an instance without a credential has raised
C8_Witness ==
    \E c \in Callers :
        /\ token[inst[c]] = ""
        /\ pc[c] = "raised"
        /\ calls[c] = 1

\* the pages a walk from cursor a serves, following next cursors for at most
\* `fuel` pages
RECURSIVE Chain(_, _)
Chain(a, fuel) ==
    IF fuel = 0 THEN <<>>
    ELSE LET ans == remote[PageKey(a)]
         IN  IF ans.error \/ ans.next = <<>>
             THEN <<a>>
             ELSE <<a>> \o Chain(ans.next, fuel - 1)

\* the remote serves k non-empty pages linked by cursors, the last one
\* without a cursor
ServesChain(k) ==
    LET walk == Chain(<<>>, MaxCursors + 1)
    IN  /\ Len(walk) = k
        /\ \A j \in 1..k :
               /\ ~remote[PageKey(walk[j])].error
               /\ remote[PageKey(walk[j])].size > 0
        /\ remote[PageKey(walk[k])].next = <<>>

RECURSIVE ConcatPages(_)
ConcatPages(walk) ==
    IF walk = <<>> THEN <<>>
    ELSE PageRecords(PageKey(Head(walk)), remote[PageKey(Head(walk))].size)
             \o ConcatPages(Tail(walk))

\* C9: for a remote that serves k non-empty pages linked by cursors, with no
\* cursor on the last page, the loop starts with no cursor, makes exactly k
\* list calls, passes each returned cursor to the next call, and accumulates
\* exactly the concatenation of the k pages in order.
C9_FetchAllWalksTheChain ==
    \A k \in 1..(MaxCursors + 1) :
        ServesChain(k) =>
            LET walk == Chain(<<>>, MaxCursors + 1)
            IN  /\ fetch_pc /= "failed"
                /\ Len(listCalls) <= k
                /\ listCalls = SubSeq(walk, 1, Len(listCalls))
                /\ fetch_pc = "fetched" =>
                       /\ listCalls = walk
                       /\ all_tasks = ConcatPages(walk)
                /\ fetch_pc = "loop" => Len(listCalls) < k

\* C9 witness: three pages (2, 2 and 1 records) were fetched in 3 list calls
\* into 5 records
C9_Witness ==
    /\ ServesChain(3)
    /\ fetch_pc = "fetched"
    /\ Len(listCalls) = 3
    /\ listCalls[1] = <<>>
    /\ Len(all_tasks) = 5

\* C10: the full-collection fetch loop terminates for every behaviour of the
\* remote, also one that returns the same cursor with a non-empty page on
\* every call: a loop that has started ends (fetched, or failed).
C10_FetchLoopTerminates == (fetch_pc = "loop") ~> (fetch_pc \in {"fetched", "failed"})

\* the requests of a kind whose response is built
Done(r, op) == req[r].op = op /\ req[r].pc = "done"
\* the newest row of the owner was younger than the TTL when the request read
\* the freshness, or not
Younger(r) == req[r].age /= <<>> /\ req[r].age[1] < CACHE_FRESH_SECONDS
Older(r) == req[r].age /= <<>> /\ req[r].age[1] >= CACHE_FRESH_SECONDS

C14_StaleResponseIsFlagged ==
    \A r \in Reqs : Done(r, "list") /\ req[r].failed /\ Older(r) =>
        LET rows == get_tasks_cache(req[r].user_id)
        IN  \A e \in ListEnrichments(rows) :
               req[r].response[1] /= ListResponse(rows, e.attached)

\* C15: after a refresh that completed without error, the activities listed
\* for the owner are exactly the tasks the remote returned.
C15_RefreshMirrorsRemote ==
    \A r \in Reqs : Done(r, "list") /\ ~req[r].fresh /\ ~req[r].failed =>
        req[r].response[1].activities =
            {[id |-> id, data |-> req[r].all_tasks[id][1]]
                : id \in Fetched(req[r].all_tasks)}

\* C16: delete_activity removes the cache row only after the remote delete
\* succeeded; when the remote delete failed, the handler has written nothing
\* to the cache and answers with an error.
C16_CacheRowGoesAfterRemoteDelete ==
    \A r \in Reqs : req[r].op = "delete" =>
        /\ req[r].writes > 0 => ~req[r].failed
        /\ req[r].failed => /\ req[r].pc = "done"
                            /\ req[r].writes = 0
                            /\ req[r].response[1].status >= 400

\* C16 witness: the remote delete failed, the handler answered 502 and the
\* owner's cache still holds the row
C16_Witness ==
    \E r \in Reqs :
        /\ Done(r, "delete")
        /\ req[r].failed
        /\ req[r].response[1].status = 502
        /\ \E row \in hubspot_tasks_cache :
              row.user_id = req[r].user_id /\ row.hubspot_task_id = req[r].id

\* C17: get_activity answers from the cache, without fetching the task,
\* whenever the owner's cache holds a row for the id, whatever its age; when
\* it holds none, the task is fetched once and, if the fetch succeeded, is in
\* the cache when the response is built.
C17_PointLookupReadsCacheFirst ==
    \A r \in Reqs : Done(r, "get") =>
        /\ req[r].held => /\ req[r].fetches = 0
                          /\ req[r].writes = 0
                          /\ req[r].response[1].status = 200
        /\ ~req[r].held =>
              /\ req[r].fetches = 1
              /\ req[r].response[1].status = 200 =>
                    /\ req[r].writes = 1
                    /\ \E row \in hubspot_tasks_cache :
                          /\ row.user_id = req[r].user_id
                          /\ row.hubspot_task_id = req[r].id
                          /\ row.data = req[r].response[1].activity.data

\* C17 witness: a row 300 s old or older was served without a fetch
C17_Witness ==
    \E r \in Reqs :
        /\ Done(r, "get")
        /\ req[r].held
        /\ req[r].fetches = 0
        /\ \E row \in hubspot_tasks_cache :
              /\ row.user_id = req[r].user_id
              /\ row.hubspot_task_id = req[r].id
              /\ clock - row.last_synced_at >= CACHE_FRESH_SECONDS

\* C18: the cache holds at most one row per (user_id, hubspot_task_id), and
\* the data of a row is exactly the object of the last upsert for its key.
C18_OneRowPerKeyLastUpsertWins ==
    \A o \in Owners : \A id \in TaskIds :
        LET rows == {row \in hubspot_tasks_cache :
                        row.user_id = o /\ row.hubspot_task_id = id}
        IN  /\ Cardinality(rows) <= 1
            /\ last_upsert[o][id] = <<>> => rows = {}
            /\ last_upsert[o][id] /= <<>> =>
                  \E row \in rows : row.data = last_upsert[o][id][1]

\* C18 witness: a bulk upsert replaced the object of a row by an object
\* that lacks one of its keys
C18_Witness ==
    \E r \in Reqs :
        /\ req[r].op = "list"
        /\ req[r].writes = 1
        /\ req[r].shrunk

\* C19: a batch association lookup over n ids issues ceil(n/100) gateway
\* calls, each with at most 100 ids, and returns a map with a key for every id.
C19_OneCallPerHundredIds ==
    assoc_pc = "returned" =>
        /\ Len(assoc_asked) = (Len(assoc_ids) + BATCH_READ_LIMIT - 1) \div BATCH_READ_LIMIT
        /\ \A i \in 1..Len(assoc_asked) : assoc_asked[i] <= BATCH_READ_LIMIT
        /\ assoc_result = {assoc_ids[i] : i \in 1..Len(assoc_ids)}

NextDashboard ==
    \/ \E r \in Reqs : \E data \in SUBSET DashboardFields : PutStart(r, data)
    \/ \E r \in Reqs : PutRead(r)
    \/ \E r \in Reqs : PutWrite(r)
    \/ \E r \in Reqs : PutReturn(r)

SpecDashboard == InitLimiter /\ [][NextDashboard]_vars

\* the remote calls of the company branch of search_contacts
CompanyBranchCalls == {"companies", "members", "batch"}
\* some entry of out_contacts is the contact id
Emits(id) == \E j \in 1..Len(out_contacts) : out_contacts[j].id = id
\* the place of the first hit of the contact search that is the contact id
FirstHit(id) ==
    CHOOSE k \in 1..Len(crm.hits) :
        /\ crm.hits[k] = id
        /\ \A m \in 1..(k - 1) : crm.hits[m] /= id

\* C21: a remote failure in one branch of search_contacts leaves the other
\* branch's results in the response. When the contact search raised, every
\* contact of the companies found is collected for the batch read and every
\* record the batch read delivered is returned; when the company search, an
\* association lookup or the batch read raised, every hit of the contact
\* search is returned.
C21_BranchFailuresAreIsolated ==
    search_pc = "done" =>
        /\ "direct" \in crm.failed =>
              /\ {derived[i].id : i \in 1..Len(derived)} = crm.members
              /\ "batch" \notin crm.failed =>
                    \A i \in 1..Len(derived) :
                        (i <= BATCH_READ_LIMIT /\ derived[i].id \notin crm.missing)
                            => \E j \in 1..Len(out_contacts) :
                                  out_contacts[j] = derived[i]
        /\ crm.failed \cap CompanyBranchCalls /= {} =>
              \A i \in 1..Len(crm.hits) : Emits(crm.hits[i])

\* C21 witness: the contact search had hits and the batch read of the company
\* branch raised
C21_Witness ==
    /\ search_pc = "done"
    /\ crm.hits /= <<>>
    /\ derived /= <<>>
    /\ "batch" \in crm.failed

C23_LaterBranchAttachesCompany ==
    (search_pc = "done" /\ crm.failed \cap CompanyBranchCalls = {}) =>
        \A j \in 1..Len(out_contacts) :
            (/\ out_contacts[j].id \in crm.bare
             /\ \E c \in CompanyIds : out_contacts[j].id \in crm.by_company[c])
                => /\ out_contacts[j].company_id /= <<>>
                   /\ out_contacts[j].id \in
                         crm.by_company[out_contacts[j].company_id[1]]

\* C25: when no call of the company branch raised and the remote holds every
\* contact asked for, every contact associated with a company found, and not
\* among the hits of the contact search, is returned with a company it is
\* associated with.
C25_EveryAssociatedContactReturned ==
    (/\ search_pc = "done"
     /\ crm.failed \cap CompanyBranchCalls = {}
     /\ crm.missing = {}) =>
        \A id \in crm.members \ Range(crm.hits) :
            \E j \in 1..Len(out_contacts) :
                /\ out_contacts[j].id = id
                /\ out_contacts[j].company_id /= <<>>
                /\ id \in crm.by_company[out_contacts[j].company_id[1]]

\* C24: when no PUT of the dashboard state is under way, every column of the
\* user's row holds the value of the last PUT that provided it, or the value
\* it had before when no PUT provided it.
C24_PutChangesOnlyProvidedFields ==
    (\A r \in Reqs : put[r].pc \in {"idle", "done"}) =>
        \A f \in DashboardFields :
            DashboardStateResponse(user_dashboard_state)[f] = last_provided[f]

\* C26: a list_activities call that answers from the cache without fetching
\* the collection was preceded by a completed refresh of the owner's
\* collection less than CACHE_FRESH_SECONDS before; a write of a single record
\* does not make the list skip the refresh.
C26_FreshOnlyAfterCompleteRefresh ==
    \A r \in Reqs :
        (Done(r, "list") /\ req[r].fetches = 0) =>
            /\ req[r].refresh_age /= <<>>
            /\ req[r].refresh_age[1] < CACHE_FRESH_SECONDS

\* C27: a list_activities call made less than CACHE_FRESH_SECONDS after a
\* refresh of the owner's collection completed, with a timestamp that parses
\* or none at all, does not fetch the collection, also when the refresh
\* returned an empty collection.
C27_FreshAfterCompletedRefresh ==
    \A r \in Reqs :
        (/\ Done(r, "list")
         /\ req[r].refresh_age /= <<>>
         /\ req[r].refresh_age[1] < CACHE_FRESH_SECONDS
         /\ (req[r].age = <<>> \/ req[r].parsed)) =>
            req[r].fetches = 0

\* C28: a refresh whose pagination loop raised writes nothing: no step of a
\* list request that failed changes hubspot_tasks_cache, whatever part of the
\* collection the loop had fetched.
C28_FailedRefreshWritesNothing ==
    [][\A r \in Reqs :
          (req'[r].op = "list" /\ req'[r].failed) =>
              /\ hubspot_tasks_cache' = hubspot_tasks_cache
              /\ req'[r].writes = 0]_vars

\* C28 witness: the loop raised after it had fetched a task, the cache holds
\* rows, and the response is built
C28_Witness ==
    \E r \in Reqs :
        /\ Done(r, "list")
        /\ req[r].failed
        /\ Fetched(req[r].all_tasks) /= {}
        /\ get_tasks_cache(req[r].user_id) /= {}

\* C29: while the success response of delete_activity for a record stands,
\* the owner's cache holds no row for that record.
C29_DeletedRowStaysDeleted ==
    \A r \in Reqs :
        (Done(r, "delete") /\ ~req[r].failed) =>
            CachedRows(req[r].user_id, req[r].id) = {}

\* C30: the steps of a request of one owner leave the rows of every other
\* owner, and with them the freshness and the cache reads of that owner, as
\* they were.
C30_OwnersAreIsolated ==
    [][\A o \in Owners :
          (\A r \in Reqs : req[r].user_id /= o /\ req'[r].user_id /= o) =>
              /\ get_tasks_cache(o)' = get_tasks_cache(o)
              /\ get_tasks_cache_freshness(o)' = get_tasks_cache_freshness(o)
              /\ \A id \in TaskIds : CachedRows(o, id)' = CachedRows(o, id)]_vars

\* C30 witness: an owner's delete of a record has gone through while another
\* owner holds a row for the same record
C30_Witness ==
    \E r \in Reqs : \E o \in Owners :
        /\ Done(r, "delete")
        /\ ~req[r].failed
        /\ o /= req[r].user_id
        /\ CachedRows(o, req[r].id) /= {}

====
